---- MODULE Spec2Model ----
(***************************************************************************)
(* Model of the Ansible "html_reports" callback plugin                     *)
(* (src/ansible/callbacks/html_reports.py): the incremental aggregation of *)
(* task results into a play -> tasks -> results -> diffs document and its  *)
(* rendering into an HTML report written at the end of the run.            *)
(*                                                                         *)
(* Conventions                                                             *)
(*  - A Python str is a sequence of tokens (Text). The tokens "<" and "&"  *)
(*    are the characters html.escape rewrites; every token the templates   *)
(*    of the plugin emit is a whole tag such as "<strong>", so a bare "<"  *)
(*    in rendered output can only be event text that was not escaped.      *)
(*  - Python None in a str-typed slot is the Text NoneT.                   *)
(*  - A raw Ansible result (JSON-like value) is a Node record              *)
(*    [t, keys, kids, s, b]; a dict keeps its keys in insertion order.     *)
(*  - An OrderedDict is a sequence of entries carrying their key.          *)
(***************************************************************************)
EXTENDS Integers, Sequences, FiniteSets, TLC

VARIABLES
    phase,        \* position in the run: "new", "running", "done"
    name,         \* CallbackModule.name
    check_mode,   \* CallbackModule.check_mode
    tasks,        \* CallbackModule.tasks: sequence of TaskData
    stats,        \* CallbackModule._stats
    stop,         \* CallbackModule.stop (a clock value, or NoTime)
    now,          \* the wall clock read by datetime.now()
    file,         \* the report file on disk
    renderLog,    \* what to_html() found each time it was entered
    event,        \* the event the last hook call delivered
    horizon,      \* number of events the run delivers before its statistics
    rTask,        \* rendering one result: the task it is recorded into
    rEvent,       \* ... the result event
    rOut,         \* ... what TaskData.to_html() returned
    rN,           \* ... number of steps done
    sIn,          \* strip_internal_keys: the structure given
    sOnce,        \* ... stripped once
    sTwice,       \* ... stripped twice
    sN,           \* ... number of strips applied
    cArgs,        \* nxos_reader: the parsed command line
    cDown,        \* ... the devices that do not answer
    cPc,          \* ... position in the main program
    cPos,         \* ... number of lines of the targets file processed
    cEntries,     \* ... the `entries` dict of the targets-file branch
    cOut,         \* ... the lines printed on standard output
    cExit         \* ... how the program ended

mainVars ==
    <<phase, name, check_mode, tasks, stats, stop, now, file, renderLog, event,
      horizon>>
stripVars == <<sIn, sOnce, sTwice, sN>>
renderVars == <<rTask, rEvent, rOut, rN>>
cliVars == <<cArgs, cDown, cPc, cPos, cEntries, cOut, cExit>>
otherVars == <<stripVars, renderVars, cliVars>>
vars == <<mainVars, stripVars, renderVars, cliVars>>

-----------------------------------------------------------------------------
(* Text *)

NoneT == <<"~None">>
EmptyT == <<>>

\* str(x): None prints as the word None
Str(x) == IF x = NoneT THEN <<"None">> ELSE x

\* html.escape, token by token
EscapeTok(c) ==
    IF c = "<" THEN "&lt;"
    ELSE IF c = ">" THEN "&gt;"
    ELSE IF c = "&" THEN "&amp;"
    ELSE IF c = "\"" THEN "&quot;"
    ELSE IF c = "'" THEN "&#x27;"
    ELSE c

html_escape(text) == [i \in 1..Len(text) |-> EscapeTok(text[i])]

StartsWith(k, p) == Len(k) >= Len(p) /\ SubSeq(k, 1, Len(p)) = p

-----------------------------------------------------------------------------
(* Raw results: JSON-like values *)

StrN(s) == [t |-> "str", keys |-> <<>>, kids |-> <<>>, s |-> s, b |-> FALSE]
BoolN(b) == [t |-> "bool", keys |-> <<>>, kids |-> <<>>, s |-> <<>>, b |-> b]
NoneN == [t |-> "none", keys |-> <<>>, kids |-> <<>>, s |-> <<>>, b |-> FALSE]
ListN(kids) == [t |-> "list", keys |-> <<>>, kids |-> kids, s |-> <<>>, b |-> FALSE]
DictN(keys, kids) == [t |-> "dict", keys |-> keys, kids |-> kids, s |-> <<>>, b |-> FALSE]

\* key in d
HasKey(d, k) == \E i \in 1..Len(d.keys) : d.keys[i] = k

\* d[k]
Item(d, k) == d.kids[CHOOSE i \in 1..Len(d.keys) : d.keys[i] = k]

\* d.get(k, default)
Get(d, k, default) == IF HasKey(d, k) THEN Item(d, k) ELSE default

\* Python truth value of a JSON-like value
Truthy(n) ==
    CASE n.t = "bool" -> n.b
      [] n.t = "str"  -> n.s # <<>>
      [] n.t = "none" -> FALSE
      [] n.t = "list" -> n.kids # <<>>
      [] n.t = "dict" -> n.keys # <<>>

InternalPrefix == <<"_ansible_">>

RECURSIVE strip_internal_keys(_)
RECURSIVE StripDictEntries(_, _)
RECURSIVE StripListElements(_)

\* the dict branch: delete the keys with the internal prefix, recurse into
\* the dict and list values that stay
StripDictEntries(keys, kids) ==
    IF keys = <<>> THEN [keys |-> <<>>, kids |-> <<>>]
    ELSE LET rest == StripDictEntries(Tail(keys), Tail(kids))
             k == Head(keys)
             v == Head(kids)
         IN  IF StartsWith(k, InternalPrefix) THEN rest
             ELSE [keys |-> <<k>> \o rest.keys,
                   kids |-> <<IF v.t \in {"dict", "list"}
                              THEN strip_internal_keys(v) ELSE v>> \o rest.kids]

\* a strip that leaves the elements of a list as they are
StripListElementsShallow(kids) == kids

\* the list branch: recurse into the dict and list elements
StripListElements(kids) ==
    IF kids = <<>> THEN <<>>
    ELSE LET v == Head(kids)
         IN  <<IF v.t \in {"dict", "list"} THEN strip_internal_keys(v) ELSE v>>
             \o StripListElements(Tail(kids))

strip_internal_keys(result) ==
    IF result.t = "list" THEN ListN(StripListElements(result.kids))
    ELSE IF result.t = "dict"
         THEN LET e == StripDictEntries(result.keys, result.kids)
              IN  DictN(e.keys, e.kids)
         ELSE result

-----------------------------------------------------------------------------
(* Status roll-up *)

NoStatus == "None"

\* COLORS: an OrderedDict, as the sequence of its (key, value) pairs
COLORS ==
    << <<"play", "dark">>, <<"skipped", "secondary">>, <<"include", "info">>,
       <<"ok", "success">>, <<"changed", "warning">>, <<"failed", "danger">>,
       <<"failures", "danger">>, <<"unreachable", "danger">> >>

\* COLORS[status]
Color(status) == COLORS[CHOOSE i \in 1..Len(COLORS) : COLORS[i][1] = status][2]

\* s_order = list(COLORS.keys())
s_order == [i \in 1..Len(COLORS) |-> COLORS[i][1]]

\* s_order.index(status)
SOrderIndex(status) == CHOOSE i \in 1..Len(s_order) : s_order[i] = status

\* the comparison turned around
HigherStatusInverted(candidate, status) ==
    SOrderIndex(candidate) < SOrderIndex(status)

\* the comparison of the loop of highest_status
HigherStatus(candidate, status) == SOrderIndex(candidate) > SOrderIndex(status)

RECURSIVE highest_status(_, _)
highest_status(status, results_list) ==
    IF results_list = <<>> THEN status
    ELSE LET r == Head(results_list)
         IN  highest_status(
                 IF status = NoStatus \/ HigherStatus(r.status, status)
                 THEN r.status ELSE status,
                 Tail(results_list))

\* the `status` property of TaskData: the value it returns, which it also
\* stores in _status
TaskStatus(task) ==
    LET s1 == IF task._status = NoStatus
              THEN highest_status(task._status, task.results)
              ELSE task._status
    IN  IF s1 = NoStatus THEN "skipped" ELSE s1

-----------------------------------------------------------------------------
(* Event ingestion: TaskData *)

NoHosts == <<>>         \* include_hosts = None (never read in that state)

KeyResults == <<"results">>
KeyFailed == <<"failed">>
KeyChanged == <<"changed">>
KeyItem == <<"item">>
KeyMsg == <<"msg">>
KeyDiff == <<"diff">>
KeyDelegVars == <<"_ansible_", "delegated_vars">>
KeyAnsibleHost == <<"ansible_host">>

\* TaskData.__init__; task = [name, path, include_role], t = datetime.now()
NewTaskData(task, prefix, t) ==
    [start |-> t,
     name |-> task.name,
     file |-> task.path,
     prefix |-> prefix,
     _status |-> IF task.include_role THEN "include" ELSE NoStatus,
     results |-> <<>>,
     include_filepath |-> NoneT,
     include_args |-> EmptyT,
     include_hosts |-> NoHosts,
     task_type |-> IF task.include_role THEN "IncludeRole" ELSE "Task"]

\* CallbackBase._get_diff of Ansible (not part of this repository): the text
\* of a prepared diff, the empty string for an empty difflist
PlayGetDiff(difflist) == IF difflist.t = "str" THEN difflist.s ELSE EmptyT

\* a Diff that also counts an unreachable host as failed
DiffOfUnreachableFails(res, status) ==
    [item |-> Get(res, KeyItem, NoneN),
     changed |-> Get(res, KeyChanged, BoolN(FALSE)),
     failed |-> IF HasKey(res, KeyFailed) THEN Item(res, KeyFailed)
                ELSE BoolN(status \in {"failed", "unreachable"}),
     msg |-> Get(res, KeyMsg, NoneN),
     diff |-> PlayGetDiff(Get(res, KeyDiff, ListN(<<>>)))]

\* one element of the list get_diff builds
DiffOf(res, status) ==
    [item |-> Get(res, KeyItem, NoneN),
     changed |-> Get(res, KeyChanged, BoolN(FALSE)),
     failed |-> IF HasKey(res, KeyFailed) THEN Item(res, KeyFailed)
                ELSE BoolN(status = "failed"),
     msg |-> Get(res, KeyMsg, NoneN),
     diff |-> PlayGetDiff(Get(res, KeyDiff, ListN(<<>>)))]

\* TaskData.get_diff
get_diff(result, status) ==
    LET sources == IF HasKey(result, KeyResults)
                   THEN Item(result, KeyResults).kids ELSE <<result>>
    IN  [i \in 1..Len(sources) |-> DiffOf(sources[i], status)]

\* result._host.get_name() + "-" + result._task.get_name()
ResultId(res) == res.host \o <<"-">> \o res.task_name

\* position of a key in an OrderedDict, 0 when it is absent
IndexOfId(results, id) ==
    IF \E i \in 1..Len(results) : results[i].id = id
    THEN CHOOSE i \in 1..Len(results) : results[i].id = id
    ELSE 0

\* the dict record_result stores under the key; res = [host, task_name, result]
ResultEntry(res, status, t) ==
    [id |-> ResultId(res),
     datetime |-> t,
     host |-> res.host,
     status |-> status,
     task_name |-> res.task_name,
     deleg_vars |-> Get(res.result, KeyDelegVars, NoneN),
     diffs |-> get_diff(res.result, status),
     result |-> strip_internal_keys(res.result)]

\* a record_result that adds an entry for every event
record_result_append(task, res, status, t) ==
    [task EXCEPT !.results = Append(@, ResultEntry(res, status, t))]

\* TaskData.record_result: the task afterwards
record_result(task, res, status, t) ==
    LET i == IndexOfId(task.results, ResultId(res))
        entry == ResultEntry(res, status, t)
    IN  [task EXCEPT !.results = IF i = 0 THEN Append(@, entry)
                                  ELSE [@ EXCEPT ![i] = entry]]

\* str() of a JSON-like value; containers print their elements in brackets
RECURSIVE PyStr(_)
RECURSIVE PyStrAll(_)
PyStrAll(kids) ==
    IF kids = <<>> THEN <<>> ELSE PyStr(Head(kids)) \o PyStrAll(Tail(kids))

PyStr(n) ==
    CASE n.t = "str"  -> n.s
      [] n.t = "none" -> <<"None">>
      [] n.t = "bool" -> IF n.b THEN <<"True">> ELSE <<"False">>
      [] n.t = "list" -> <<"[">> \o PyStrAll(n.kids) \o <<"]">>
      [] n.t = "dict" -> <<"{">> \o PyStrAll(n.kids) \o <<"}">>

\* CallbackBase._get_item_label of Ansible (not part of this repository)
PlayGetItemLabel(args) == PyStr(Get(args, KeyItem, NoneN))

\* a record_local_include that starts the record afresh, dropping the results
record_local_include_reset(task, included_file) ==
    [task EXCEPT
        !.task_type = "LocalInclude",
        !._status = "include",
        !.results = <<>>,
        !.include_filepath = included_file._filename,
        !.include_args = IF HasKey(included_file._args, KeyItem)
                         THEN PyStr(Get(included_file._args, KeyItem, NoneN)) ELSE @,
        !.include_hosts = included_file._hosts]

\* TaskData.record_local_include; included_file = [_filename, _args, _hosts]
record_local_include(task, included_file) ==
    [task EXCEPT
        !.task_type = "LocalInclude",
        !._status = "include",
        !.include_filepath = included_file._filename,
        !.include_args = IF HasKey(included_file._args, KeyItem)
                         THEN PlayGetItemLabel(included_file._args) ELSE @,
        !.include_hosts = included_file._hosts]

-----------------------------------------------------------------------------
(* HTML rendering helpers *)

\* "\n".join(parts), parts a sequence of Texts
RECURSIVE JoinNL(_)
JoinNL(parts) ==
    IF parts = <<>> THEN <<>>
    ELSE IF Len(parts) = 1 THEN parts[1]
    ELSE parts[1] \o <<"\n">> \o JoinNL(Tail(parts))

code_block(content) == <<"<code><pre>">> \o content \o <<"</pre></code>">>

\* random.random() as read by the k-th call of color_block of one rendering:
\* rnd is the stream of values the generator yields
RndAt(rnd, k) == rnd[((k - 1) % Len(rnd)) + 1]

\* color_block; an absent header or content is the empty Text (both are
\* falsy), div_id is str(random.random())[2:]
color_block(status, header, content, div_id) ==
    LET color == Color(status)
        both == header # <<>> /\ content # <<>>
        parts ==
            << <<"<div class=alert alert-", color, " collapse show>">> >>
            \o (IF both
                THEN << <<"<a class=btn btn-", color, " href=#x", div_id,
                          " aria-controls=x", div_id, ">+</a>">> >>
                ELSE <<>>)
            \o (IF header # <<>>
                THEN << <<"<strong>">> \o header \o <<"</strong>">> >>
                ELSE <<>>)
            \o (IF both
                THEN << <<"<div class=collapse blk-content id=x", div_id, ">">> >>
                ELSE <<>>)
            \o (IF content # <<>>
                THEN << <<"<div class=card card-body>">>, content, <<"</div>">> >>
                ELSE <<>>)
            \o (IF both THEN << <<"</div>">> >> ELSE <<>>)
            \o << <<"</div>">> >>
    IN  JoinNL(parts)

\* json.dumps: the quote inside a string is escaped, "<" and "&" are not
\* (the white space of indent=2 is left out)
JsonEscapeTok(c) == IF c = "\"" THEN "\\\"" ELSE c

RECURSIVE json_dumps(_)
RECURSIVE JsonMembers(_, _)
RECURSIVE JsonElements(_)

JsonString(s) ==
    <<"\"">> \o [i \in 1..Len(s) |-> JsonEscapeTok(s[i])] \o <<"\"">>

JsonMembers(keys, kids) ==
    IF keys = <<>> THEN <<>>
    ELSE JsonString(Head(keys)) \o <<": ">> \o json_dumps(Head(kids))
         \o (IF Len(keys) > 1 THEN <<",">> ELSE <<>>)
         \o JsonMembers(Tail(keys), Tail(kids))

JsonElements(kids) ==
    IF kids = <<>> THEN <<>>
    ELSE json_dumps(Head(kids))
         \o (IF Len(kids) > 1 THEN <<",">> ELSE <<>>)
         \o JsonElements(Tail(kids))

json_dumps(n) ==
    CASE n.t = "str"  -> JsonString(n.s)
      [] n.t = "none" -> <<"null">>
      [] n.t = "bool" -> IF n.b THEN <<"true">> ELSE <<"false">>
      [] n.t = "list" -> <<"[">> \o JsonElements(n.kids) \o <<"]">>
      [] n.t = "dict" -> <<"{">> \o JsonMembers(n.keys, n.kids) \o <<"}">>

debug_block(data, div_id) ==
    color_block("skipped", <<"Debug">>,
                code_block(html_escape(json_dumps(data))), div_id)

CliColorTok(c) ==
    IF c = "[0;31m" THEN "<code class=text-danger>"
    ELSE IF c = "[0;32m" THEN "<code class=text-success>"
    ELSE IF c = "[0;36m" THEN "<code class=text-info>"
    ELSE IF c = "[0m" THEN "</code>"
    ELSE c

cli_colors_to_html(text) ==
    LET e == html_escape(text) IN [i \in 1..Len(e) |-> CliColorTok(e[i])]

color_html(status, text) ==
    <<"<code class=text-", Color(status), ">">> \o html_escape(text)
    \o <<"</code>">>

\* strftime(TIME_FORMAT) of a clock value
TimeText(t) == <<"T", ToString(t)>>

-----------------------------------------------------------------------------
(* Rendering a task *)

\* TaskData.header, given the value of self.status
TaskHeader(task, status) ==
    TimeText(task.start) \o <<": ", status, " - ", task.prefix, ": ">>
    \o Str(task.name)
    \o (IF task.task_type = "IncludeRole" THEN <<" (include role)">> ELSE <<>>)

\* the "Item: ..." line of a diff, empty when the item is falsy
DiffItem(diff) ==
    IF Truthy(diff.item)
    THEN <<"<div class=item>Item: ">> \o html_escape(PyStr(diff.item))
         \o <<"</div>\n">>
    ELSE <<>>

\* the code block of the diff text of a changed item, empty without text
DiffText(diff) ==
    IF diff.diff # <<>> THEN code_block(cli_colors_to_html(diff.diff))
    ELSE <<>>

\* whether the body of the diffs loop calls color_block for this diff
DiffHasBlock(diff) ==
    IF Truthy(diff.failed) THEN TRUE
    ELSE IF ~Truthy(diff.changed) THEN DiffItem(diff) # <<>>
    ELSE DiffItem(diff) # <<>> \/ DiffText(diff) # <<>>

\* a diffs loop that renders a block for every item that is not failed
DiffBlockEveryItem(diff, status, div_id) ==
    IF Truthy(diff.failed)
    THEN color_block("failed", <<>>,
                     DiffItem(diff) \o <<"<div class=item>Msg: ">>
                     \o html_escape(PyStr(diff.msg)) \o <<"</div>">>,
                     div_id)
    ELSE IF ~Truthy(diff.changed)
    THEN color_block("ok", <<>>, <<"<div class=item>">> \o DiffItem(diff), div_id)
    ELSE color_block(status, <<>>,
                     <<"<div class=item>">> \o DiffItem(diff) \o DiffText(diff),
                     div_id)

\* a diffs loop that tests the changed flag before the failed flag
DiffBlockChangedFirst(diff, status, div_id) ==
    IF Truthy(diff.changed)
    THEN (IF DiffItem(diff) # <<>> \/ DiffText(diff) # <<>>
          THEN color_block(status, <<>>, DiffItem(diff) \o DiffText(diff), div_id)
          ELSE <<>>)
    ELSE IF Truthy(diff.failed)
    THEN color_block("failed", <<>>,
                     DiffItem(diff) \o <<"<div class=item>Msg: ">>
                     \o html_escape(PyStr(diff.msg)) \o <<"</div>">>,
                     div_id)
    ELSE (IF DiffItem(diff) # <<>>
          THEN color_block("ok", <<>>, DiffItem(diff), div_id) ELSE <<>>)

\* what one pass of the diffs loop adds to content
DiffBlock(diff, status, div_id) ==
    IF Truthy(diff.failed)
    THEN color_block("failed", <<>>,
                     DiffItem(diff) \o <<"<div class=item>Msg: ">>
                     \o html_escape(PyStr(diff.msg)) \o <<"</div>">>,
                     div_id)
    ELSE IF ~Truthy(diff.changed)
    THEN (IF DiffItem(diff) # <<>>
          THEN color_block("ok", <<>>, DiffItem(diff), div_id) ELSE <<>>)
    ELSE (IF DiffItem(diff) # <<>> \/ DiffText(diff) # <<>>
          THEN color_block(status, <<>>, DiffItem(diff) \o DiffText(diff), div_id)
          ELSE <<>>)

\* the diffs loop: [out, k], k the number of color_block calls made so far
RECURSIVE RenderDiffs(_, _, _, _)
RenderDiffs(diffs, status, rnd, k) ==
    IF diffs = <<>> THEN [out |-> <<>>, k |-> k]
    ELSE LET d == Head(diffs)
             used == IF DiffHasBlock(d) THEN 1 ELSE 0
             rest == RenderDiffs(Tail(diffs), status, rnd, k + used)
         IN  [out |-> DiffBlock(d, status, RndAt(rnd, k + 1)) \o rest.out,
              k |-> rest.k]

\* the header of a result block, before escaping; ok is FALSE when
\* deleg_vars has no 'ansible_host' (KeyError)
ResultHeader(result) ==
    LET base == <<result.status, ": ">> \o result.host
    IN  IF Truthy(result.deleg_vars)
        THEN IF HasKey(result.deleg_vars, KeyAnsibleHost)
             THEN [ok |-> TRUE,
                   out |-> base \o <<" => ">>
                           \o PyStr(Item(result.deleg_vars, KeyAnsibleHost))]
             ELSE [ok |-> FALSE, out |-> <<>>]
        ELSE [ok |-> TRUE, out |-> base]

\* a results loop without the "reset ok to include" assignment
ResetStatusNever(result, task_status) == result.status

\* the status of a result after the "reset ok to include" assignment
ResetStatus(result, task_status) ==
    IF result.status = "ok" /\ task_status = "include" THEN task_status
    ELSE result.status

\* a result rendered with its details: the diff blocks ds = [out, k], the
\* debug block, and the block of the result around them
ResultDetail(result, st, header, task_file, rnd, ds) ==
    [ok |-> TRUE,
     out |-> color_block(st, html_escape(header),
                 ds.out \o debug_block(
                               DictN(<< <<"task_file">>, <<"result">> >>,
                                     <<StrN(task_file), result.result>>),
                               RndAt(rnd, ds.k + 1)),
                 RndAt(rnd, ds.k + 2)),
     k |-> ds.k + 2,
     result |-> [result EXCEPT !.status = st]]

\* the body of the results loop after the header h = [ok, out] is built and
\* the status st is reset
ResultBlock(result, h, st, task_file, rnd, k) ==
    IF ~h.ok THEN [ok |-> FALSE, out |-> <<>>, k |-> k, result |-> result]
    ELSE IF st \in {"skipped", "include"}
    THEN [ok |-> TRUE,
          out |-> color_block(st, html_escape(h.out), <<>>, RndAt(rnd, k + 1)),
          k |-> k + 1,
          result |-> [result EXCEPT !.status = st]]
    ELSE ResultDetail(result, st, h.out, task_file, rnd,
                      RenderDiffs(result.diffs, st, rnd, k))

\* one pass of the results loop of TaskData.to_html:
\* [ok, out, k, result], result as the pass leaves it
RenderResult(result, task_status, task_file, rnd, k) ==
    ResultBlock(result, ResultHeader(result), ResetStatus(result, task_status),
                task_file, rnd, k)

\* the state of the results loop after the pass r over results[i]
AfterResult(acc, i, r) ==
    [ok |-> r.ok,
     out |-> acc.out \o r.out,
     k |-> r.k,
     results |-> [acc.results EXCEPT ![i] = r.result],
     read |-> acc.read \/ (r.ok /\ acc.results[i].status = "ok")]

\* the results loop: acc = [ok, out, k, results, read]; read tells whether
\* the loop has evaluated self.status
RECURSIVE RenderResults(_, _, _, _, _)
RenderResults(i, task_status, task_file, rnd, acc) ==
    IF i > Len(acc.results) \/ ~acc.ok THEN acc
    ELSE RenderResults(i + 1, task_status, task_file, rnd,
             AfterResult(acc, i,
                 RenderResult(acc.results[i], task_status, task_file, rnd, acc.k)))

\* a rendering of the included file that gives the block its header only
IncludeToHtmlHeaderOnly(task, st, rnd, k) ==
    [ok |-> TRUE,
     out |-> color_block(st, TaskHeader(task, st), <<>>, RndAt(rnd, k + 1)),
     k |-> k + 1,
     task |-> [task EXCEPT !._status = st]]

\* TaskData.to_html: [ok, out, k, task]. self.status is computed from the
\* results as they were recorded: the loop rewrites a result's status only
\* when self.status is "include", which no roll-up of results replaces.
\* the branch of to_html for a locally included file
IncludeToHtml(task, st, rnd, k) ==
    [ok |-> TRUE,
     out |-> color_block(st, TaskHeader(task, st),
                 code_block(<<"Included file: ">>
                            \o Str(task.include_filepath)
                            \o task.include_args
                            \o <<"\nHosts:\n">>
                            \o JoinNL(task.include_hosts)),
                 RndAt(rnd, k + 1)),
     k |-> k + 1,
     task |-> [task EXCEPT !._status = st]]

\* the end of to_html, after the results loop rs
TaskBlock(task, st, rnd, rs) ==
    IF rs.ok
    THEN [ok |-> TRUE,
          out |-> color_block(st, TaskHeader(task, st), rs.out,
                              RndAt(rnd, rs.k + 1)),
          k |-> rs.k + 1,
          task |-> [task EXCEPT !._status = st, !.results = rs.results]]
    ELSE [ok |-> FALSE, out |-> <<>>, k |-> rs.k,
          task |-> [task EXCEPT !.results = rs.results,
                                !._status = IF rs.read THEN st ELSE @]]

TaskToHtmlWith(task, st, rnd, k) ==
    IF task.task_type = "LocalInclude" THEN IncludeToHtml(task, st, rnd, k)
    ELSE TaskBlock(task, st, rnd,
             RenderResults(1, st, task.file, rnd,
                 [ok |-> TRUE, out |-> <<>>, k |-> k,
                  results |-> task.results, read |-> FALSE]))

TaskToHtml(task, rnd, k) == TaskToHtmlWith(task, TaskStatus(task), rnd, k)

-----------------------------------------------------------------------------
(* The callback object: summary, report assembly, report writing *)

NoTime == -1            \* stop = None
RunStart == 0           \* start = datetime.now() at construction

NoStats == [set |-> FALSE, processed |-> <<>>]     \* _stats = None

\* ord() of the first character of a token
Ord(c) ==
    CASE c = "&" -> 38
      [] c = "<" -> 60
      [] c = "d" -> 100
      [] c = "w" -> 119
      [] OTHER -> 0

\* a < b on str
RECURSIVE LessText(_, _)
LessText(a, b) ==
    IF a = <<>> THEN b # <<>>
    ELSE IF b = <<>> THEN FALSE
    ELSE IF Head(a) = Head(b) THEN LessText(Tail(a), Tail(b))
    ELSE Ord(Head(a)) < Ord(Head(b))

\* sorted(stats.processed.keys()), each key with its summarize() counts
RECURSIVE InsertSorted(_, _)
InsertSorted(e, sorted) ==
    IF sorted = <<>> THEN <<e>>
    ELSE IF LessText(e.host, Head(sorted).host) THEN <<e>> \o sorted
    ELSE <<Head(sorted)>> \o InsertSorted(e, Tail(sorted))

RECURSIVE SortedHosts(_)
SortedHosts(processed) ==
    IF processed = <<>> THEN <<>>
    ELSE InsertSorted(Head(processed), SortedHosts(Tail(processed)))

SummaryStatus == <<"ok", "changed", "unreachable", "failures">>

\* "%s=%s  " % (s, n), colored when n is not zero
SummaryEntry(s, n) ==
    LET entry == <<s, "=", ToString(n), "  ">>
    IN  IF n # 0 THEN color_html(s, entry) ELSE entry

RECURSIVE SummaryEntries(_, _)
SummaryEntries(i, t) ==
    IF i > Len(SummaryStatus) THEN <<>>
    ELSE SummaryEntry(SummaryStatus[i], t[SummaryStatus[i]])
         \o SummaryEntries(i + 1, t)

\* [s for s in status if t[s]]
NonZeroStatus(t) ==
    SelectSeq(SummaryStatus, LAMBDA s : t[s] # 0)

\* the per-host lines: [ok, out]; ok is FALSE when a host has no non-zero
\* category, where [...][-1] raises IndexError
RECURSIVE SummaryHostLines(_)
SummaryHostLines(hosts) ==
    IF hosts = <<>> THEN [ok |-> TRUE, out |-> <<>>]
    ELSE LET t == Head(hosts)
             nz == NonZeroStatus(t)
             rest == SummaryHostLines(Tail(hosts))
         IN  IF nz = <<>> THEN [ok |-> FALSE, out |-> <<>>]
             ELSE [ok |-> rest.ok,
                   out |-> color_html(nz[Len(nz)], t.host) \o <<" : ">>
                           \o SummaryEntries(1, t) \o <<"\n">> \o rest.out]

RECURSIVE SumOf(_, _)
SumOf(hosts, s) ==
    IF hosts = <<>> THEN 0 ELSE Head(hosts)[s] + SumOf(Tail(hosts), s)

\* a summary that puts the lines of the hosts before the totals
SummaryHostsFirst(st) ==
    IF st.set
    THEN LET hosts == SortedHosts(st.processed)
             lines == SummaryHostLines(hosts)
             sum_status == [s \in {"ok", "changed", "unreachable", "failures"}
                              |-> SumOf(hosts, s)]
         IN  [ok |-> lines.ok,
              out |-> lines.out
                      \o <<"Hosts: ", ToString(Len(st.processed)), "\nSummary: ">>
                      \o SummaryEntries(1, sum_status)
                      \o <<"\n">>]
    ELSE [ok |-> TRUE, out |-> <<>>]

\* the `summary` property: [ok, out]
Summary(st) ==
    IF st.set
    THEN LET hosts == SortedHosts(st.processed)
             lines == SummaryHostLines(hosts)
             sum_status == [s \in {"ok", "changed", "unreachable", "failures"}
                              |-> SumOf(hosts, s)]
         IN  [ok |-> lines.ok,
              out |-> <<"Hosts: ", ToString(Len(st.processed)), "\nSummary: ">>
                      \o SummaryEntries(1, sum_status)
                      \o <<"\n">> \o lines.out]
    ELSE [ok |-> TRUE, out |-> <<>>]

\* a setter that forgets the stop time
SummarySetterNoStop(cb, st, t) == [cb EXCEPT !.stats = st]

\* the summary setter; t = datetime.now()
SummarySetter(cb, st, t) == [cb EXCEPT !.stats = st, !.stop = t]

\* the loop over self.tasks of to_html: acc = [ok, out, k, tasks]
AfterTask(acc, i, r) ==
    [ok |-> r.ok,
     out |-> acc.out \o r.out,
     k |-> r.k,
     tasks |-> [acc.tasks EXCEPT ![i] = r.task]]

RECURSIVE RenderTasks(_, _, _)
RenderTasks(i, rnd, acc) ==
    IF i > Len(acc.tasks) \/ ~acc.ok THEN acc
    ELSE RenderTasks(i + 1, rnd,
             AfterTask(acc, i, TaskToHtml(acc.tasks[i], rnd, acc.k)))

\* CallbackModule.to_html: [ok, out, k, tasks]. It raises (ok = FALSE) when
\* name or stop is None, and when the summary raises.
ToHtmlWith(cb, sm, rnd) ==
    IF cb.name = NoneT \/ cb.stop = NoTime \/ ~sm.ok
    THEN [ok |-> FALSE, out |-> <<>>, k |-> 0, tasks |-> cb.tasks]
    ELSE RenderTasks(1, rnd,
             [ok |-> TRUE,
              out |-> color_block("play",
                          <<"PLAY: ">> \o cb.name
                          \o (IF cb.check_mode THEN <<"  [check mode]">> ELSE <<>>),
                          code_block(<<"Start: ">> \o TimeText(cb.start)
                              \o <<"\nStop: ">> \o TimeText(cb.stop)
                              \o <<"\nDuration: ", ToString(cb.stop - cb.start),
                                   " seconds\nTasks: ", ToString(Len(cb.tasks)),
                                   "\n">>
                              \o sm.out),
                          RndAt(rnd, 1)),
              k |-> 1,
              tasks |-> cb.tasks])

ToHtml(cb, rnd) == ToHtmlWith(cb, Summary(cb.stats), rnd)

ReportName(cb) == <<"ansible-report-", ToString(cb.start), ".html">>

\* REPORT_HEAD % report_name
ReportHead(report_name) == <<"REPORT_HEAD<title>">> \o report_name \o <<"</title>">>

REPORT_FOOT == <<"REPORT_FOOT">>

NoFile == [dir |-> FALSE, exists |-> FALSE, path |-> <<>>, content |-> <<>>]

\* write_report: [file, tasks, log]. The file is opened (created or
\* truncated), the head is written, then to_html() is evaluated and its
\* result written, then the foot; an exception of to_html() leaves the file
\* as it is at that point. content is the sequence of the chunks written.
Written(cb, f, r) ==
    [file |-> [dir |-> TRUE,
               exists |-> TRUE,
               path |-> <<"reports", "/">> \o ReportName(cb),
               content |-> IF r.ok
                           THEN <<ReportHead(ReportName(cb)), r.out, REPORT_FOOT>>
                           ELSE <<ReportHead(ReportName(cb))>>],
     tasks |-> r.tasks,
     log |-> [stats_set |-> cb.stats.set, stop_set |-> cb.stop # NoTime],
     ok |-> r.ok]

WriteReport(cb, f, rnd) == Written(cb, f, ToHtml(cb, rnd))

-----------------------------------------------------------------------------
(* Events of a run and the values they carry *)

MaxEvents == 3    \* events between the start of the play and the run statistics
MaxIngest == 4    \* the same, in runs followed up to their statistics only
MaxItems == 2     \* items of a looped task

Host1 == <<"w">>
Host2 == <<"d", "<">>

\* str.strip(): white space at both ends removed
RECURSIVE LStrip(_)
LStrip(s) == IF s # <<>> /\ Head(s) = " " THEN LStrip(Tail(s)) ELSE s

RECURSIVE RStrip(_)
RStrip(s) ==
    IF s # <<>> /\ s[Len(s)] = " " THEN RStrip(SubSeq(s, 1, Len(s) - 1)) ELSE s

StripWs(s) == RStrip(LStrip(s))

PlayInputs ==
    {[name |-> <<"site">>, check_mode |-> FALSE],
     [name |-> <<" ", "<", "b", ">", " ">>, check_mode |-> TRUE]}

StartTasks ==
    {[name |-> <<"install">>, path |-> <<"/r/main.yml:2">>, include_role |-> FALSE],
     [name |-> <<"role", "&">>, path |-> <<"/r/main.yml:9">>, include_role |-> TRUE]}

HandlerTasks ==
    {[name |-> <<"<", "restart">>, path |-> <<"/r/handlers.yml:1">>,
      include_role |-> FALSE]}

IncludedFiles ==
    {[_filename |-> <<"/r/", "<", "inc.yml">>,
      _args |-> DictN(<<KeyItem>>, <<StrN(<<"i", "&">>)>>),
      _hosts |-> <<Host1, Host2>>],
     [_filename |-> <<"/r/other.yml">>,
      _args |-> DictN(<<>>, <<>>),
      _hosts |-> <<Host2>>]}

RawOk ==
    DictN(<<KeyChanged, KeyDelegVars, <<"_ansible_", "parsed">> >>,
          <<BoolN(FALSE),
            DictN(<<KeyAnsibleHost>>, <<StrN(<<"<", "gw">>)>>),
            BoolN(TRUE)>>)

RawChanged ==
    DictN(<<KeyChanged, KeyResults>>,
          <<BoolN(TRUE),
            ListN(<<DictN(<<KeyItem, KeyChanged, KeyDiff, <<"_ansible_", "item_label">> >>,
                          <<StrN(<<"i", "<">>), BoolN(TRUE),
                            StrN(<<"[0;31m", "-", "<", "x", ">", "[0m">>),
                            StrN(<<"i", "<">>)>>),
                    DictN(<<KeyChanged>>, <<BoolN(FALSE)>>)>>)>>)

RawFailed ==
    DictN(<<KeyFailed, KeyMsg, <<"_ansible_", "no_log">> >>,
          <<BoolN(TRUE), StrN(<<"no", "&", "\"", "way">>), BoolN(FALSE)>>)

RawSkipped ==
    DictN(<<KeyChanged, <<"skipped">> >>, <<BoolN(FALSE), BoolN(TRUE)>>)

RawUnreachable ==
    DictN(<<KeyChanged, KeyMsg, <<"unreachable">> >>,
          <<BoolN(FALSE), StrN(<<"ssh", "<", "timeout">>), BoolN(TRUE)>>)

\* the task names a result may carry while the task named n is the last one
\* opened: that name, or the name of a task started earlier whose result
\* arrives late
ResultNames(n) == {n, <<"install">>}

\* the TaskResult objects that carry the raw result `raw`
ResultsWith(raws) ==
    IF tasks = <<>> THEN {}
    ELSE {r \in [host : {Host1, Host2},
                  task_name : ResultNames(tasks[Len(tasks)].name),
                  result : raws] :
             r.task_name = tasks[Len(tasks)].name \/ r.host = Host1}

\* TaskResult.is_changed()
IsChanged(res) == Truthy(Get(res.result, KeyChanged, BoolN(FALSE)))

StatsMixed ==
    [set |-> TRUE,
     processed |->
        <<[host |-> Host1, ok |-> 2, changed |-> 1, unreachable |-> 0, failures |-> 0],
          [host |-> Host2, ok |-> 0, changed |-> 0, unreachable |-> 1, failures |-> 1]>>]

\* on Host2 every task was skipped
StatsIdleHost ==
    [set |-> TRUE,
     processed |->
        <<[host |-> Host1, ok |-> 1, changed |-> 0, unreachable |-> 0, failures |-> 0],
          [host |-> Host2, ok |-> 0, changed |-> 0, unreachable |-> 0, failures |-> 0]>>]

\* the values random.random() yields during one rendering: all different,
\* or the same value again
RndDistinct == [i \in 1..64 |-> ToString(i)]
RndRepeat == <<"7">>

StatsInputs ==
    {[stats |-> StatsMixed, rnd |-> RndDistinct],
     [stats |-> StatsMixed, rnd |-> RndRepeat],
     [stats |-> StatsIdleHost, rnd |-> RndDistinct]}

-----------------------------------------------------------------------------
(* The hooks of CallbackModule *)

Callback ==
    [name |-> name, check_mode |-> check_mode, tasks |-> tasks,
     stats |-> stats, stop |-> stop, start |-> RunStart]

NoEvent == [kind |-> "none"]

\* the callback object after __init__
Constructed ==
    /\ phase = "new"
    /\ name = NoneT
    /\ check_mode = FALSE
    /\ tasks = <<>>
    /\ stats = NoStats
    /\ stop = NoTime
    /\ now = RunStart
    /\ file = NoFile
    /\ renderLog = <<>>
    /\ event = NoEvent

StripIdle ==
    /\ sIn = NoneN
    /\ sOnce = NoneN
    /\ sTwice = NoneN
    /\ sN = 0

RenderIdle ==
    /\ rTask = NoEvent
    /\ rEvent = NoEvent
    /\ rOut = <<>>
    /\ rN = 0

\* nxos_reader is not running
CliIdle ==
    /\ cArgs = NoEvent
    /\ cDown = {}
    /\ cPc = "idle"
    /\ cPos = 0
    /\ cEntries = <<>>
    /\ cOut = <<>>
    /\ cExit = "none"

Init ==
    /\ Constructed
    /\ horizon = MaxEvents
    /\ StripIdle
    /\ RenderIdle
    /\ CliIdle

\* new_task
new_task(task, prefix) ==
    /\ phase = "running"
    /\ now < horizon
    /\ now' = now + 1
    /\ tasks' = Append(tasks, NewTaskData(task, prefix, now + 1))
    /\ event' = [kind |-> "task", task |-> task, prefix |-> prefix]
    /\ UNCHANGED <<phase, name, check_mode, stats, stop, file, renderLog, horizon,
                   otherVars>>

\* the open task a result is filed under when results go to the task whose
\* name they carry
TaskNamed(task_name) ==
    IF \E i \in 1..Len(tasks) : tasks[i].name = task_name
    THEN CHOOSE i \in 1..Len(tasks) :
            /\ tasks[i].name = task_name
            /\ \A j \in 1..Len(tasks) : tasks[j].name = task_name => j <= i
    ELSE Len(tasks)

\* a record_task_result that files the result under the task it names
record_task_result_by_name(result, status) ==
    /\ phase = "running"
    /\ now < horizon
    /\ tasks # <<>>
    /\ now' = now + 1
    /\ tasks' = [tasks EXCEPT ![TaskNamed(result.task_name)] =
                     record_result(@, result, status, now + 1)]
    /\ event' = [kind |-> "result", result |-> result, status |-> status]
    /\ UNCHANGED <<phase, name, check_mode, stats, stop, file, renderLog, horizon,
                   otherVars>>

\* record_task_result: self.tasks[-1] raises IndexError when no task is open
record_task_result(result, status) ==
    /\ phase = "running"
    /\ now < horizon
    /\ tasks # <<>>
    /\ now' = now + 1
    /\ tasks' = [tasks EXCEPT ![Len(tasks)] = record_result(@, result, status, now + 1)]
    /\ event' = [kind |-> "result", result |-> result, status |-> status]
    /\ UNCHANGED <<phase, name, check_mode, stats, stop, file, renderLog, horizon,
                   otherVars>>

v2_playbook_on_play_start ==
    \E play \in PlayInputs :
        /\ phase = "new"
        /\ phase' = "running"
        /\ name' = StripWs(play.name)
        /\ check_mode' = play.check_mode
        /\ event' = [kind |-> "play", play |-> play]
        /\ UNCHANGED <<tasks, stats, stop, now, file, renderLog, horizon, otherVars>>

\* the state v2_playbook_on_stats leaves: cb after the summary setter, w what
\* write_report did
Finalized(cb, w) ==
    /\ phase = "running"
    /\ phase' = "done"
    /\ now' = now + 1
    /\ stats' = cb.stats
    /\ stop' = cb.stop
    /\ tasks' = w.tasks
    /\ file' = w.file
    /\ renderLog' = Append(renderLog, w.log)
    /\ event' = [kind |-> "stats", stats |-> cb.stats]
    /\ UNCHANGED <<name, check_mode, horizon, otherVars>>

\* self.summary = stats, then self.write_report()
SetThenWrite(cb, rnd) == Finalized(cb, WriteReport(cb, file, rnd))

v2_playbook_on_stats ==
    \E in \in StatsInputs :
        SetThenWrite(SummarySetter(Callback, in.stats, now + 1), in.rnd)

v2_playbook_on_task_start ==
    \E task \in StartTasks : new_task(task, "TASK")

v2_playbook_on_handler_task_start ==
    \E task \in HandlerTasks : new_task(task, "HANDLER")

v2_playbook_on_include ==
    \E included_file \in IncludedFiles :
        /\ phase = "running"
        /\ now < horizon
        /\ tasks # <<>>
        /\ now' = now + 1
        /\ tasks' = [tasks EXCEPT ![Len(tasks)] = record_local_include(@, included_file)]
        /\ event' = [kind |-> "include", included_file |-> included_file]
        /\ UNCHANGED <<phase, name, check_mode, stats, stop, file, renderLog, horizon,
                       otherVars>>

v2_runner_on_failed ==
    \E result \in ResultsWith({RawFailed}) : record_task_result(result, "failed")

v2_runner_on_ok ==
    \E result \in ResultsWith({RawOk, RawChanged}) :
        record_task_result(result, IF IsChanged(result) THEN "changed" ELSE "ok")

v2_runner_on_skipped ==
    \E result \in ResultsWith({RawSkipped}) : record_task_result(result, "skipped")

v2_runner_on_unreachable ==
    \E result \in ResultsWith({RawUnreachable}) :
        record_task_result(result, "unreachable")

v2_runner_on_async_failed ==
    \E result \in ResultsWith({RawFailed}) : record_task_result(result, "failed")

v2_playbook_on_import_for_host ==
    \E result \in ResultsWith({RawOk}) : record_task_result(result, "include")

v2_playbook_on_not_import_for_host ==
    \E result \in ResultsWith({RawFailed}) : record_task_result(result, "failed")

Next ==
    \/ v2_playbook_on_play_start
    \/ v2_playbook_on_stats
    \/ v2_playbook_on_task_start
    \/ v2_playbook_on_handler_task_start
    \/ v2_playbook_on_include
    \/ v2_runner_on_failed
    \/ v2_runner_on_ok
    \/ v2_runner_on_skipped
    \/ v2_runner_on_unreachable
    \/ v2_runner_on_async_failed
    \/ v2_playbook_on_import_for_host
    \/ v2_playbook_on_not_import_for_host

Spec == Init /\ [][Next]_vars

\* the run up to, and without, its statistics
InitIngest ==
    /\ Constructed
    /\ horizon = MaxIngest
    /\ StripIdle
    /\ RenderIdle
    /\ CliIdle

NextIngest ==
    \/ v2_playbook_on_play_start
    \/ v2_playbook_on_task_start
    \/ v2_playbook_on_handler_task_start
    \/ v2_playbook_on_include
    \/ v2_runner_on_failed
    \/ v2_runner_on_ok
    \/ v2_runner_on_skipped
    \/ v2_runner_on_unreachable
    \/ v2_runner_on_async_failed
    \/ v2_playbook_on_import_for_host
    \/ v2_playbook_on_not_import_for_host

SpecIngest == InitIngest /\ [][NextIngest]_vars

-----------------------------------------------------------------------------
(* Specification of one result recorded into a task and rendered *)

AbsentOr(k, vals) == {[keys |-> <<>>, kids |-> <<>>]}
                     \cup {[keys |-> <<k>>, kids |-> <<v>>] : v \in vals}

\* one element of the `results` list of a looped task, or the whole raw
\* result of a task without a loop
ItemSources ==
    {DictN(f.keys \o c.keys \o i.keys \o d.keys \o <<KeyMsg>>,
           f.kids \o c.kids \o i.kids \o d.kids \o <<StrN(<<"e", "<", "&">>)>>) :
        f \in AbsentOr(KeyFailed, {BoolN(TRUE), BoolN(FALSE)}),
        c \in {[keys |-> <<KeyChanged>>, kids |-> <<BoolN(b)>>] : b \in BOOLEAN},
        i \in AbsentOr(KeyItem, {StrN(<<"i", "<">>)}),
        d \in AbsentOr(KeyDiff, {StrN(<<"[0;32m", "+", "&", "[0m">>)})}

RECURSIVE SeqsUpTo(_, _)
SeqsUpTo(S, n) ==
    IF n = 0 THEN {<<>>}
    ELSE LET shorter == SeqsUpTo(S, n - 1)
         IN  shorter \cup {Append(q, x) : q \in {r \in shorter : Len(r) = n - 1}, x \in S}

LoopedResults ==
    {DictN(<<KeyChanged, KeyResults>>, <<BoolN(FALSE), ListN(items)>>) :
        items \in SeqsUpTo(ItemSources, MaxItems)}

\* raw results without a `changed` field, and the raw results of the hooks
BareSources ==
    {DictN(<<>>, <<>>),
     DictN(<<KeyFailed>>, <<BoolN(FALSE)>>),
     DictN(<<KeyResults>>,
           <<ListN(<<DictN(<<KeyItem>>, <<StrN(<<"i">>)>>), DictN(<<>>, <<>>)>>)>>),
     RawOk, RawChanged, RawFailed, RawSkipped, RawUnreachable}

\* the tasks a result is recorded into and the status labels of the hooks
RenderCases ==
    {[task |-> t, status |-> st] :
        t \in {x \in StartTasks : ~x.include_role},
        st \in {"ok", "changed", "failed", "skipped", "unreachable", "include"}}
    \cup {[task |-> t, status |-> "ok"] : t \in {x \in StartTasks : x.include_role}}

InitRender ==
    /\ Constructed
    /\ horizon = MaxEvents
    /\ StripIdle
    /\ CliIdle
    /\ \E c \in RenderCases, raw \in LoopedResults \cup ItemSources \cup BareSources :
          /\ rTask = NewTaskData(c.task, "TASK", RunStart)
          /\ rEvent = [result |-> [host |-> Host1, task_name |-> c.task.name,
                                   result |-> raw],
                       status |-> c.status]
    /\ rOut = <<>>
    /\ rN = 0

RenderRecord ==
    /\ rN = 0
    /\ rTask' = record_result(rTask, rEvent.result, rEvent.status, RunStart)
    /\ rN' = 1
    /\ UNCHANGED <<rEvent, rOut, mainVars, stripVars, cliVars>>

RenderToHtml ==
    /\ rN = 1
    /\ rOut' = TaskToHtml(rTask, RndDistinct, 0).out
    /\ rTask' = TaskToHtml(rTask, RndDistinct, 0).task
    /\ rN' = 2
    /\ UNCHANGED <<rEvent, mainVars, stripVars, cliVars>>

NextRender == RenderRecord \/ RenderToHtml

SpecRender == InitRender /\ [][NextRender]_vars

-----------------------------------------------------------------------------
(* Specification of strip_internal_keys applied to bounded structures *)

MaxDepth == 2     \* nesting depth of the structures given to strip_internal_keys

KeyInternal == <<"_ansible_", "x">>
KeyPlain == <<"k", "_ansible_">>

Leaves == {StrN(<<"v">>)}

RECURSIVE Trees(_)
Trees(d) ==
    IF d = 0 THEN Leaves
    ELSE LET S == Trees(d - 1)
         IN  Leaves
             \cup {ListN(<<>>)}
             \cup {ListN(<<a>>) : a \in S}
             \cup {ListN(<<a, b>>) : a \in S, b \in S}
             \cup {DictN(<<>>, <<>>)}
             \cup {DictN(<<k>>, <<a>>) : k \in {KeyInternal, KeyPlain}, a \in S}
             \cup {DictN(<<KeyInternal, KeyPlain>>, <<StrN(<<"v">>), b>>) : b \in S}
             \cup {DictN(<<KeyPlain, KeyInternal>>, <<a, StrN(<<"v">>)>>) : a \in S}

InitStrip ==
    /\ Constructed
    /\ horizon = MaxEvents
    /\ RenderIdle
    /\ CliIdle
    /\ sIn \in Trees(MaxDepth)
    /\ sOnce = NoneN
    /\ sTwice = NoneN
    /\ sN = 0

StripFirst ==
    /\ sN = 0
    /\ sOnce' = strip_internal_keys(sIn)
    /\ sN' = 1
    /\ UNCHANGED <<sIn, sTwice, mainVars, renderVars, cliVars>>

StripAgain ==
    /\ sN = 1
    /\ sTwice' = strip_internal_keys(sOnce)
    /\ sN' = 2
    /\ UNCHANGED <<sIn, sOnce, mainVars, renderVars, cliVars>>

NextStrip == StripFirst \/ StripAgain

SpecStrip == InitStrip /\ [][NextStrip]_vars

RECURSIVE HasInternalKey(_)
HasInternalKey(n) ==
    \/ /\ n.t = "dict"
       /\ \E i \in 1..Len(n.keys) : StartsWith(n.keys[i], InternalPrefix)
    \/ \E i \in 1..Len(n.kids) : HasInternalKey(n.kids[i])

\* C7: stripping is idempotent, and one strip leaves no key with the
\* internal prefix at any nesting depth
C7_StripIdempotent ==
    /\ sN >= 1 => ~HasInternalKey(sOnce)
    /\ sN = 2 => sTwice = sOnce

\* a structure with an internal key below the top level has been stripped twice
C7_Witness ==
    /\ sN = 2
    /\ sIn.t = "dict"
    /\ \A i \in 1..Len(sIn.keys) : ~StartsWith(sIn.keys[i], InternalPrefix)
    /\ HasInternalKey(sIn)
    /\ sOnce # sIn

-----------------------------------------------------------------------------
(* nxos_reader: the program that reads the VLANs of Cisco NXOS devices       *)
(* (src/nxos-tools/nxos_reader.py)                                          *)

MaxTargets == 2   \* lines of a targets file

NoVal == "~None"  \* None as the value of a field

RECURSIVE IndexOfTok(_, _, _)
IndexOfTok(text, tok, i) ==
    IF i > Len(text) THEN 0
    ELSE IF text[i] = tok THEN i
    ELSE IndexOfTok(text, tok, i + 1)

\* text.split(sep, 1)
Split1(text, sep) ==
    IF IndexOfTok(text, sep, 1) = 0 THEN <<text>>
    ELSE <<SubSeq(text, 1, IndexOfTok(text, sep, 1) - 1),
           SubSeq(text, IndexOfTok(text, sep, 1) + 1, Len(text))>>

\* line.strip()
RECURSIVE LineLStrip(_)
LineLStrip(s) ==
    IF s # <<>> /\ Head(s) \in {" ", "\n"} THEN LineLStrip(Tail(s)) ELSE s

RECURSIVE LineRStrip(_)
LineRStrip(s) ==
    IF s # <<>> /\ s[Len(s)] \in {" ", "\n"}
    THEN LineRStrip(SubSeq(s, 1, Len(s) - 1)) ELSE s

LineStrip(s) == LineRStrip(LineLStrip(s))

\* Nexus.__init__: ok is FALSE when the connection string has no "@"
\* (the unpacking of split('@', 1) raises ValueError)
Nexus(conn_str) ==
    IF Len(Split1(conn_str, "@")) = 2
    THEN [ok |-> TRUE, user |-> Split1(conn_str, "@")[1],
          fqdn |-> Split1(conn_str, "@")[2]]
    ELSE [ok |-> FALSE, user |-> <<>>, fqdn |-> <<>>]

\* the devices of the network and what their show commands answer; the
\* interface of a VLAN is named "Vlan" + vlan id and is given by the id
Devices == {<<"a">>, <<"b">>, <<"c">>}

DeviceData(fqdn) ==
    CASE fqdn = <<"a">> ->
            [vlans |-> <<[id |-> "10", name |-> "a10"], [id |-> "20", name |-> "a20"]>>,
             interfaces |-> <<[id |-> "10", addr |-> "10.0.10.2", mask |-> "24"]>>,
             vrf_ifaces |-> <<[id |-> "10", vrf_name |-> "prod"]>>,
             hsrp_supported |-> TRUE,
             hsrp |-> <<[id |-> "10", active |-> "10.0.10.2",
                         standby |-> "10.0.10.3", vip |-> "10.0.10.1"]>>,
             vxlan |-> <<[id |-> "10", vni |-> "10010"]>>,
             mac_addrs |-> <<[vlan |-> "10", type |-> "*"], [vlan |-> "10", type |-> "G"],
                             [vlan |-> "20", type |-> "*"]>>]
      [] fqdn = <<"b">> ->
            [vlans |-> <<[id |-> "20", name |-> "b20"], [id |-> "30", name |-> "b30"]>>,
             interfaces |-> <<[id |-> "30", addr |-> "10.0.30.3", mask |-> "25"]>>,
             vrf_ifaces |-> <<>>,
             hsrp_supported |-> FALSE,
             hsrp |-> <<>>,
             vxlan |-> <<[id |-> "20", vni |-> "10020"], [id |-> "30", vni |-> "10030"]>>,
             mac_addrs |-> <<[vlan |-> "30", type |-> "*"]>>]
      [] OTHER ->
            [vlans |-> <<[id |-> "10", name |-> "c10"], [id |-> "40", name |-> "c40"]>>,
             interfaces |-> <<[id |-> "10", addr |-> "10.0.10.3", mask |-> "24"],
                              [id |-> "40", addr |-> "10.0.40.2", mask |-> "24"]>>,
             vrf_ifaces |-> <<[id |-> "40", vrf_name |-> "lab"]>>,
             hsrp_supported |-> TRUE,
             hsrp |-> <<[id |-> "10", active |-> "10.0.10.2",
                         standby |-> "10.0.10.3", vip |-> "10.0.10.1"],
                        [id |-> "40", active |-> "10.0.40.2",
                         standby |-> "10.0.40.3", vip |-> NoVal]>>,
             vxlan |-> <<>>,
             mac_addrs |-> <<[vlan |-> "40", type |-> "*"], [vlan |-> "40", type |-> "*"]>>]

\* Nexus.conn: netmiko.ConnectHandler raises for a device that does not
\* answer, and for a name that is no device
Connects(sw, down) == sw.fqdn \in Devices /\ sw.fqdn \notin down

\* the rows of a table whose interface or VLAN is `id`
RowsOf(table, id) == SelectSeq(table, LAMBDA r : r.id = id)

\* the entry gather_data builds for one VLAN of the master: [ok, entry].
\* m is the data of the master; s_bound tells whether s_sw was assigned,
\* s_sw is the Nexus of the slave
VlanEntry(m, vlan, vxlan, s_bound, s_sw, down) ==
    LET ifaces == RowsOf(m.interfaces, vlan.id)
        svi_addr == IF ifaces # <<>> THEN ifaces[1].addr ELSE NoVal
        mask == IF ifaces # <<>> THEN ifaces[1].mask ELSE NoVal
        vrfs == RowsOf(m.vrf_ifaces, vlan.id)
        vrf_name == IF vrfs # <<>> THEN vrfs[Len(vrfs)].vrf_name ELSE "default"
        hs == RowsOf(m.hsrp, vlan.id)
        fields == [vlan_id |-> vlan.id, vlan_name |-> vlan.name, vrf |-> vrf_name,
                   vni |-> NoVal, masterip |-> NoVal, slaveip |-> NoVal,
                   vip |-> NoVal, mask |-> mask, isl3 |-> NoVal]
        vnis == RowsOf(m.vxlan, vlan.id)
        s_ifaces == RowsOf(DeviceData(s_sw.fqdn).interfaces, vlan.id)
    IN  IF vxlan
        THEN [ok |-> TRUE,
              entry |-> [fields EXCEPT
                            !.vni = IF vnis # <<>> THEN vnis[1].vni ELSE NoVal,
                            !.masterip = svi_addr,
                            !.isl3 = IF svi_addr # NoVal THEN "False" ELSE "True"]]
        ELSE IF ~m.hsrp_supported THEN [ok |-> FALSE, entry |-> fields]
        ELSE IF hs # <<>>
        THEN [ok |-> TRUE,
              entry |-> [fields EXCEPT !.masterip = hs[1].active,
                                       !.slaveip = hs[1].standby,
                                       !.vip = hs[1].vip]]
        ELSE IF ~s_bound \/ ~Connects(s_sw, down)
        THEN [ok |-> FALSE, entry |-> fields]
        ELSE [ok |-> TRUE,
              entry |-> [fields EXCEPT
                            !.masterip = svi_addr,
                            !.slaveip = IF s_ifaces # <<>> THEN s_ifaces[1].addr
                                        ELSE NoVal]]

\* the loop of gather_data over the VLANs of the master: [ok, entries]
RECURSIVE GatherVlans(_, _, _, _, _, _)
GatherVlans(m, vlans, vxlan, s_bound, s_sw, down) ==
    IF vlans = <<>> THEN [ok |-> TRUE, entries |-> <<>>]
    ELSE IF ~VlanEntry(m, Head(vlans), vxlan, s_bound, s_sw, down).ok
    THEN [ok |-> FALSE, entries |-> <<>>]
    ELSE IF ~GatherVlans(m, Tail(vlans), vxlan, s_bound, s_sw, down).ok
    THEN [ok |-> FALSE, entries |-> <<>>]
    ELSE [ok |-> TRUE,
          entries |-> <<VlanEntry(m, Head(vlans), vxlan, s_bound, s_sw, down).entry>>
                      \o GatherVlans(m, Tail(vlans), vxlan, s_bound, s_sw, down).entries]

\* gather_data: [ok, entries]; ok is FALSE when it raises. conn_str_b is
\* falsy when it is None or empty
gather_data(conn_str_a, conn_str_b, vxlan, down) ==
    IF ~Nexus(conn_str_a).ok THEN [ok |-> FALSE, entries |-> <<>>]
    ELSE IF conn_str_b \notin {NoneT, <<>>} /\ ~Nexus(conn_str_b).ok
    THEN [ok |-> FALSE, entries |-> <<>>]
    ELSE IF ~Connects(Nexus(conn_str_a), down)
    THEN [ok |-> FALSE, entries |-> <<>>]
    ELSE GatherVlans(DeviceData(Nexus(conn_str_a).fqdn),
                     DeviceData(Nexus(conn_str_a).fqdn).vlans,
                     vxlan,
                     conn_str_b \notin {NoneT, <<>>},
                     IF conn_str_b \notin {NoneT, <<>>} THEN Nexus(conn_str_b)
                     ELSE [ok |-> FALSE, user |-> <<>>, fqdn |-> <<>>],
                     down)

\* str() of a field
FieldText(v) == IF v = NoVal THEN "None" ELSE v

\* Entry.to_json
to_json(e) ==
    <<"- { ", "name: '", e.vlan_name, "'", ", ", "vlan_id: ", e.vlan_id>>
    \o (IF e.vni # NoVal
        THEN <<", ", "vrf: '", e.vrf, "'", ", ", "isL3: ", FieldText(e.isl3),
               ", ", "vni: ", e.vni>>
             \o (IF e.isl3 = "False"
                 THEN <<", ", "gwip: ", FieldText(e.masterip),
                        ", ", "mask: ", FieldText(e.mask), " ">>
                 ELSE <<>>)
        ELSE IF e.masterip # NoVal
        THEN <<", ", "vrf: '", e.vrf, "'", ", ", "masterip: ", e.masterip,
               ", ", "slaveip: ", FieldText(e.slaveip),
               ", ", "mask: ", FieldText(e.mask)>>
             \o (IF e.vip # NoVal THEN <<", ", "vip: ", e.vip>> ELSE <<>>)
        ELSE <<>>)
    \o <<" }">>

\* show_vlans_macs: [ok, lines]; the table of the MAC addresses is read
\* before the first line is printed
show_vlans_macs(conn_str, down) ==
    IF ~Nexus(conn_str).ok \/ ~Connects(Nexus(conn_str), down)
    THEN [ok |-> FALSE, lines |-> <<>>]
    ELSE [ok |-> TRUE,
          lines |->
            [i \in 1..Len(DeviceData(Nexus(conn_str).fqdn).vlans) |->
                <<"vlan ", DeviceData(Nexus(conn_str).fqdn).vlans[i].id,
                  " mac addresses count: ",
                  ToString(Len(SelectSeq(
                      DeviceData(Nexus(conn_str).fqdn).mac_addrs,
                      LAMBDA a :
                          /\ a.vlan = DeviceData(Nexus(conn_str).fqdn).vlans[i].id
                          /\ a.type # "G")))>>]]

\* the lines a targets file may hold
TargetLines ==
    {<<"u", "@", "a", "|", "u", "@", "c", "\n">>,
     <<"u", "@", "c", "\n">>,
     <<" ", "u", "@", "b", "\n">>,
     <<"u", "@", "a", "\n">>,
     <<"router", "\n">>}

ConnStrings == {<<"u", "@", "a">>, <<"u", "@", "b">>, <<"u", "@", "c">>}

\* what parse_args() returns
CliArgs ==
    {[version |-> v, vxlan |-> x, vlans_macs |-> e, targets_file |-> TRUE,
      m_conn |-> NoneT, s_conn |-> NoneT, targets |-> t] :
        v \in {FALSE}, x \in BOOLEAN, e \in BOOLEAN,
        t \in SeqsUpTo(TargetLines, MaxTargets)}
    \cup
    {[version |-> v, vxlan |-> x, vlans_macs |-> e, targets_file |-> FALSE,
      m_conn |-> m, s_conn |-> sl, targets |-> <<>>] :
        v \in BOOLEAN, x \in BOOLEAN, e \in BOOLEAN,
        m \in ConnStrings \cup {NoneT}, sl \in {<<"u", "@", "c">>, NoneT}}

InitCli ==
    /\ Constructed
    /\ horizon = MaxEvents
    /\ StripIdle
    /\ RenderIdle
    /\ cArgs \in CliArgs
    /\ cDown \in SUBSET Devices
    /\ cPc = "args"
    /\ cPos = 0
    /\ cEntries = <<>>
    /\ cOut = <<>>
    /\ cExit = "none"

\* the program ends: nothing runs after exit() or an uncaught exception
Exits(status, printed) ==
    /\ cPc' = "done"
    /\ cExit' = status
    /\ cOut' = cOut \o printed
    /\ UNCHANGED <<cArgs, cDown, cPos, cEntries, mainVars, stripVars, renderVars>>

\* the main program up to the choice of the branch: --version, the targets
\* file, the checks of the connection strings
CliParseArgs ==
    /\ cPc = "args"
    /\ IF cArgs.version
       THEN Exits("0", << <<"Script version: ", "0.3.0">> >>)
       ELSE IF cArgs.targets_file
       THEN /\ cPc' = "targets"
            /\ UNCHANGED <<cArgs, cDown, cPos, cEntries, cOut, cExit, mainVars,
                           stripVars, renderVars>>
       ELSE IF cArgs.m_conn = NoneT
       THEN Exits("usage", <<>>)
       ELSE IF cArgs.s_conn = NoneT /\ ~(cArgs.vxlan \/ cArgs.vlans_macs)
       THEN Exits("usage", <<>>)
       ELSE /\ cPc' = "single"
            /\ UNCHANGED <<cArgs, cDown, cPos, cEntries, cOut, cExit, mainVars,
                           stripVars, renderVars>>

\* target = line.strip().split('|', 1): [master, slave]
TargetOf(line) ==
    [master |-> Split1(LineStrip(line), "|")[1],
     slave |-> IF Len(Split1(LineStrip(line), "|")) = 2
               THEN Split1(LineStrip(line), "|")[2] ELSE NoneT]

\* entries[vlan_id] = entry for the VLAN ids that entries does not hold
RECURSIVE MergeEntries(_, _)
MergeEntries(entries, data) ==
    IF data = <<>> THEN entries
    ELSE IF \E i \in 1..Len(entries) : entries[i].vlan_id = Head(data).vlan_id
    THEN MergeEntries(entries, Tail(data))
    ELSE MergeEntries(Append(entries, Head(data)), Tail(data))

\* one pass of the loop over the lines of the targets file
CliTarget ==
    /\ cPc = "targets"
    /\ cPos < Len(cArgs.targets)
    /\ cPos' = cPos + 1
    /\ IF cArgs.vlans_macs
       THEN /\ cOut' = cOut \o
                  (IF show_vlans_macs(TargetOf(cArgs.targets[cPos + 1]).master, cDown).ok
                   THEN show_vlans_macs(TargetOf(cArgs.targets[cPos + 1]).master,
                                        cDown).lines
                   ELSE << <<"# unresponsive targets: ">>
                           \o LineStrip(cArgs.targets[cPos + 1]) >>)
            /\ UNCHANGED cEntries
       ELSE IF gather_data(TargetOf(cArgs.targets[cPos + 1]).master,
                           TargetOf(cArgs.targets[cPos + 1]).slave,
                           cArgs.vxlan, cDown).ok
       THEN /\ cEntries' = MergeEntries(cEntries,
                               gather_data(TargetOf(cArgs.targets[cPos + 1]).master,
                                           TargetOf(cArgs.targets[cPos + 1]).slave,
                                           cArgs.vxlan, cDown).entries)
            /\ UNCHANGED cOut
       ELSE /\ cOut' = Append(cOut, <<"# unresponsive targets: ">>
                                    \o LineStrip(cArgs.targets[cPos + 1]))
            /\ UNCHANGED cEntries
    /\ UNCHANGED <<cArgs, cDown, cPc, cExit, mainVars, stripVars, renderVars>>

\* after the loop: the entries are printed and the program ends
CliPrintEntries ==
    /\ cPc = "targets"
    /\ cPos = Len(cArgs.targets)
    /\ Exits("0", [i \in 1..Len(cEntries) |-> to_json(cEntries[i])])

\* the branch of the connection strings of the command line; an exception
\* of show_vlans_macs or gather_data is not caught there
CliSingleTarget ==
    /\ cPc = "single"
    /\ IF cArgs.vlans_macs
       THEN IF show_vlans_macs(cArgs.m_conn, cDown).ok
            THEN Exits("1", show_vlans_macs(cArgs.m_conn, cDown).lines)
            ELSE Exits("traceback", <<>>)
       ELSE IF gather_data(cArgs.m_conn, cArgs.s_conn, cArgs.vxlan, cDown).ok
       THEN Exits("0",
                  [i \in 1..Len(gather_data(cArgs.m_conn, cArgs.s_conn,
                                            cArgs.vxlan, cDown).entries) |->
                      to_json(gather_data(cArgs.m_conn, cArgs.s_conn,
                                          cArgs.vxlan, cDown).entries[i])])
       ELSE Exits("traceback", <<>>)

NextCli == CliParseArgs \/ CliTarget \/ CliPrintEntries \/ CliSingleTarget

SpecCli == InitCli /\ [][NextCli]_vars

-----------------------------------------------------------------------------
(* Properties *)

Last(q) == q[Len(q)]

\* the order of statuses: play < skipped < include < ok < changed < failed
\* < unreachable
StatusOrder ==
    <<"play", "skipped", "include", "ok", "changed", "failed", "unreachable">>

StatusRank(st) == CHOOSE i \in 1..Len(StatusOrder) : StatusOrder[i] = st

\* the derived status of the task is the highest-ranked status among its
\* results, skipped when it has none
DerivedIsHighest(task) ==
    IF task.results = <<>> THEN TaskStatus(task) = "skipped"
    ELSE /\ \E j \in 1..Len(task.results) :
                task.results[j].status = TaskStatus(task)
         /\ \A j \in 1..Len(task.results) :
                StatusRank(task.results[j].status) <= StatusRank(TaskStatus(task))

\* C1 as stated: the derived status of every Task is the highest-ranked
\* status among the Results it holds, skipped when it holds none
C1_StatusIsHighest ==
    \A i \in 1..Len(tasks) : DerivedIsHighest(tasks[i])

\* C1 amended: the derived status of every ordinary Task is the
\* highest-ranked status among the Results it holds (skipped when it holds
\* none); a Task opened for an included role or converted by an
\* include-notification has status include whatever Results it holds
C1_OrdinaryStatusIsHighest ==
    \A i \in 1..Len(tasks) :
        IF tasks[i].task_type = "Task" THEN DerivedIsHighest(tasks[i])
        ELSE TaskStatus(tasks[i]) = "include"

\* a rendered ordinary task whose first result outranks its second
C1_Witness ==
    /\ phase = "done"
    /\ \E i \in 1..Len(tasks) :
          /\ tasks[i].task_type = "Task"
          /\ Len(tasks[i].results) = 2
          /\ tasks[i].results[1].status = "failed"
          /\ tasks[i].results[2].status = "ok"
          /\ tasks[i]._status = "failed"

\* C2: a result recorded under a key the open Task already holds replaces
\* the Result of that key in place: the number of Results does not grow, the
\* key keeps its position and is held once, the Result carries the values of
\* the later event, and the other Results are untouched
C2_UpsertInPlace ==
    [][(event'.kind = "result" /\ now' # now) =>
        LET old == Last(tasks).results
            new == Last(tasks').results
            ev == event'
            id == ev.result.host \o <<"-">> \o ev.result.task_name
            was == {j \in 1..Len(old) : old[j].id = id}
        IN  was # {} =>
              /\ Len(new) = Len(old)
              /\ Cardinality({j \in 1..Len(new) : new[j].id = id}) = 1
              /\ \A j \in 1..Len(old) :
                    IF j \in was
                    THEN /\ new[j].id = id
                         /\ new[j].datetime = now'
                         /\ new[j].host = ev.result.host
                         /\ new[j].task_name = ev.result.task_name
                         /\ new[j].status = ev.status
                         /\ new[j].diffs = get_diff(ev.result.result, ev.status)
                         /\ new[j].result = strip_internal_keys(ev.result.result)
                    ELSE new[j] = old[j]]_vars

\* the first of two keys of a task was recorded again after the second
C2_Witness ==
    /\ tasks # <<>>
    /\ Len(Last(tasks).results) = 2
    /\ Last(tasks).results[1].datetime > Last(tasks).results[2].datetime
    /\ Last(tasks).results[1].status # Last(tasks).results[2].status

IsFinalized == stats.set /\ stop # NoTime

\* C3: nothing is rendered or written while the run is not finalized, and
\* whenever to_html() is entered the stop time and the statistics are set
C3_RenderOnlyFinalized ==
    /\ \A i \in 1..Len(renderLog) :
          renderLog[i].stats_set /\ renderLog[i].stop_set
    /\ (file.exists \/ renderLog # <<>>) => IsFinalized
    /\ phase # "done" => ~IsFinalized

\* the report was rendered and written in full
C3_Witness ==
    /\ phase = "done"
    /\ Len(renderLog) = 1
    /\ file.exists
    /\ Len(file.content) = 3
    /\ tasks # <<>>

\* C4: the report file is absent or holds the complete document
\* head + body + foot
C4_AllOrNothing ==
    file.exists =>
        /\ Len(file.content) = 3
        /\ file.content[1] = ReportHead(ReportName(Callback))
        /\ file.content[3] = REPORT_FOOT

\* C5: rendering leaves every Task's status and every Result unchanged
C5_RenderingIsPure ==
    [][(phase = "running" /\ phase' = "done") =>
        \A i \in 1..Len(tasks) :
            /\ TaskStatus(tasks'[i]) = TaskStatus(tasks[i])
            /\ tasks'[i].results = tasks[i].results]_vars

AlertTok == "<div class=alert alert-"
CardTok == "<div class=card card-body>"
ItemTok == "<div class=item>Item: "
MsgTok == "<div class=item>Msg: "

\* the blocks without a header of a rendering: the places they open at
HeaderlessBlocks(out) ==
    {i \in 1..Len(out) : /\ out[i] = AlertTok
                         /\ i + 4 <= Len(out)
                         /\ out[i + 4] = CardTok}

\* a block without a header is a failure block when it holds a message
IsFailureBlock(out, i) ==
    \E m \in (i + 1)..Len(out) :
        /\ out[m] = MsgTok
        /\ out[i + 1] = "danger"
        /\ \A j \in (i + 1)..m : out[j] # AlertTok

FailureBlocks(out) ==
    Cardinality({i \in HeaderlessBlocks(out) : IsFailureBlock(out, i)})

NonFailureBlocks(out) ==
    Cardinality({i \in HeaderlessBlocks(out) : ~IsFailureBlock(out, i)})

rRaw == rEvent.result.result
rLooped == HasKey(rRaw, KeyResults)
rItems == Item(rRaw, KeyResults).kids

\* the status the result is rendered with
rShownStatus ==
    IF rEvent.status = "ok" /\ rTask.task_type = "IncludeRole" THEN "include"
    ELSE rEvent.status

ItemHas(src, k, v) == HasKey(src, k) /\ Item(src, k) = v

\* the item counts as failed: failed = true, or no failed field in a result
\* recorded as failed
ItemFailed(src) ==
    IF HasKey(src, KeyFailed) THEN Item(src, KeyFailed) = BoolN(TRUE)
    ELSE rEvent.status = "failed"

\* the item has something to show: a label, or a diff text when it changed
ItemShown(src) ==
    \/ HasKey(src, KeyItem) /\ Item(src, KeyItem).s # <<>>
    \/ /\ ItemHas(src, KeyChanged, BoolN(TRUE))
       /\ HasKey(src, KeyDiff)
       /\ Item(src, KeyDiff).s # <<>>

\* C6 as stated: a looped result with N items of which K have failed = true
\* renders K failure diff blocks and N - K non-failure diff blocks
C6_LoopBlockCounts ==
    (rN = 2 /\ rLooped) =>
        LET K == Cardinality({i \in 1..Len(rItems) :
                                 ItemHas(rItems[i], KeyFailed, BoolN(TRUE))})
        IN  /\ FailureBlocks(rOut) = K
            /\ NonFailureBlocks(rOut) = Len(rItems) - K

\* C6 amended: a looped result rendered with its details (status neither
\* skipped nor include) renders one failure diff block for each failed item
\* and one non-failure diff block for each other item that has a label, or
\* changed and has a diff text; rendered header-only it has no diff block
C6_LoopBlockCountsShown ==
    (rN = 2 /\ rLooped) =>
        IF rShownStatus \in {"skipped", "include"}
        THEN FailureBlocks(rOut) = 0 /\ NonFailureBlocks(rOut) = 0
        ELSE /\ FailureBlocks(rOut) =
                    Cardinality({i \in 1..Len(rItems) : ItemFailed(rItems[i])})
             /\ NonFailureBlocks(rOut) =
                    Cardinality({i \in 1..Len(rItems) :
                                    ~ItemFailed(rItems[i]) /\ ItemShown(rItems[i])})

\* a failed result of two items, one failed and one with nothing to show
C6_Witness ==
    /\ rN = 2
    /\ rLooped
    /\ rEvent.status = "failed"
    /\ Len(rItems) = 2
    /\ ItemHas(rItems[1], KeyFailed, BoolN(TRUE))
    /\ ItemHas(rItems[2], KeyFailed, BoolN(FALSE))
    /\ ~ItemShown(rItems[2])
    /\ FailureBlocks(rOut) = 1
    /\ NonFailureBlocks(rOut) = 0

RawChars == {"<", ">", "&", "\"", "'"}

\* C8: no text of the events reaches the rendered report unescaped
C8_AllTextEscaped ==
    (file.exists /\ Len(file.content) = 3) =>
        \A i \in 1..Len(file.content[2]) : file.content[2][i] \notin RawChars

\* C9: an include-notification converts the most recently opened Task into
\* a locally-included-file record and creates no Task: the number of Tasks,
\* every other Task, and the converted Task's name, start time and results
\* are unchanged
C9_IncludeConvertsLastTask ==
    [][(event'.kind = "include" /\ now' # now) =>
        LET f == event'.included_file
            old == Last(tasks)
            new == Last(tasks')
        IN  /\ Len(tasks') = Len(tasks)
            /\ \A i \in 1..(Len(tasks) - 1) : tasks'[i] = tasks[i]
            /\ new.task_type = "LocalInclude"
            /\ TaskStatus(new) = "include"
            /\ new.include_filepath = f._filename
            /\ new.include_hosts = f._hosts
            /\ HasKey(f._args, KeyItem) =>
                   new.include_args = Item(f._args, KeyItem).s
            /\ new.name = old.name
            /\ new.start = old.start
            /\ new.prefix = old.prefix
            /\ new.file = old.file
            /\ new.results = old.results]_vars

\* the second of two tasks was converted while it held a result
C9_Witness ==
    /\ Len(tasks) = 2
    /\ tasks[2].task_type = "LocalInclude"
    /\ tasks[2].results # <<>>
    /\ tasks[2].include_hosts # <<>>

\* html.escape on the characters of the messages and labels of the events
EscapedChar(c) ==
    CASE c = "<" -> "&lt;"
      [] c = ">" -> "&gt;"
      [] c = "&" -> "&amp;"
      [] c = "\"" -> "&quot;"
      [] c = "'" -> "&#x27;"
      [] OTHER -> c

Escaped(text) == [i \in 1..Len(text) |-> EscapedChar(text[i])]

\* the failure block of a diff: the label line when there is a label, then
\* the message
FailureBlockOf(diff) ==
    <<AlertTok, "danger", " collapse show>", "\n", CardTok, "\n">>
    \o (IF diff.item.t = "str" /\ diff.item.s # <<>>
        THEN <<ItemTok>> \o Escaped(diff.item.s) \o <<"</div>\n">>
        ELSE <<>>)
    \o <<MsgTok>>
    \o (IF diff.msg.t = "none" THEN <<"None">> ELSE Escaped(diff.msg.s))
    \o <<"</div>", "\n", "</div>", "\n", "</div>">>

Occurs(block, out) ==
    \/ block = <<>>
    \/ \E o \in 0..(Len(out) - Len(block)) :
          /\ out[o + 1] = block[1]
          /\ SubSeq(out, o + 1, o + Len(block)) = block

\* C10: a Diff with failed = true renders exactly one failure block holding
\* its escaped message, after the item label when there is one, and the
\* block is the same whether the Diff's changed flag is true or false
C10_FailedBeforeChanged ==
    rN >= 1 =>
        \A i \in 1..Len(rTask.results[1].diffs) :
            LET d == rTask.results[1].diffs[i]
                flipped == [d EXCEPT !.changed = BoolN(~Truthy(d.changed))]
            IN  Truthy(d.failed) =>
                  /\ DiffBlock(d, rShownStatus, "0") = FailureBlockOf(d)
                  /\ DiffBlock(flipped, rShownStatus, "0") = FailureBlockOf(d)
                  /\ (rN = 2 /\ rShownStatus \notin {"skipped", "include"}) =>
                        Occurs(FailureBlockOf(d), rOut)

\* a changed, failed result without a loop and without a label was rendered
C10_Witness ==
    /\ rN = 2
    /\ ~rLooped
    /\ rEvent.status = "failed"
    /\ ItemHas(rRaw, KeyFailed, BoolN(TRUE))
    /\ ItemHas(rRaw, KeyChanged, BoolN(TRUE))
    /\ ~HasKey(rRaw, KeyItem)
    /\ FailureBlocks(rOut) = 1
    /\ NonFailureBlocks(rOut) = 0

ToggleTok == "<a class=btn btn-"
CollapseTok == "<div class=collapse blk-content id=x"

CountTok(out, tok) == Cardinality({i \in 1..Len(out) : out[i] = tok})

\* the report was written in full
ReportComplete == phase = "done" /\ file.exists /\ Len(file.content) = 3

ReportBody == file.content[2]

\* every task of the run is a locally-included-file record
AllLocalIncludes ==
    /\ tasks # <<>>
    /\ \A i \in 1..Len(tasks) : tasks[i].task_type = "LocalInclude"

RECURSIVE JoinLines(_)
JoinLines(lines) ==
    IF lines = <<>> THEN <<>>
    ELSE IF Len(lines) = 1 THEN lines[1]
    ELSE lines[1] \o <<"\n">> \o JoinLines(Tail(lines))

\* the text of the block of a locally included file: the path with the
\* argument label, then the host list
IncludeText(task) ==
    <<"Included file: ">> \o task.include_filepath \o task.include_args
    \o <<"\nHosts:\n">> \o JoinLines(task.include_hosts)

\* the header line of a task of status include
IncludeHeaderLine(task) ==
    <<"<strong>", "T", ToString(task.start), ": ", "include", " - ",
      task.prefix, ": ">> \o task.name \o <<"</strong>">>

\* the block of a locally included file rendered header-only
IncludeHeaderOnlyBlock(task) ==
    <<AlertTok, "info", " collapse show>", "\n">>
    \o IncludeHeaderLine(task)

\* the block of a locally included file with toggle and collapsible body
IncludeCollapsibleBlock(task, id) ==
    <<AlertTok, "info", " collapse show>", "\n",
      ToggleTok, "info", " href=#x", id, " aria-controls=x", id, ">+</a>", "\n">>
    \o IncludeHeaderLine(task)
    \o <<"\n", CollapseTok, id, ">", "\n", CardTok, "\n", "<code><pre>">>
    \o IncludeText(task)
    \o <<"</pre></code>", "\n", "</div>", "\n", "</div>", "\n", "</div>">>

\* the text of every locally included file is in the report
IncludeTextsListed ==
    \A i \in 1..Len(tasks) :
        tasks[i].task_type = "LocalInclude" =>
            Occurs(IncludeText(tasks[i]), ReportBody)

\* C11 as stated: a locally-included-file Task renders as one header-only
\* block (no toggle, no collapsible body region) of status include whose
\* text lists the path and the hosts, and none of its Results is rendered
C11_IncludeHeaderOnly ==
    (ReportComplete /\ AllLocalIncludes) =>
        /\ CountTok(ReportBody, AlertTok) = 1 + Len(tasks)
        /\ CountTok(ReportBody, ToggleTok) = 1
        /\ CountTok(ReportBody, CollapseTok) = 1
        /\ IncludeTextsListed
        /\ \A i \in 1..Len(tasks) :
              Occurs(IncludeHeaderOnlyBlock(tasks[i]), ReportBody)

\* C11 amended: a locally-included-file Task renders as one block of status
\* include with its header, a toggle control and a collapsible body whose
\* text lists the included path with the argument label and every target
\* host; none of the Task's Results is rendered
C11_IncludeOneCollapsibleBlock ==
    (ReportComplete /\ AllLocalIncludes) =>
        /\ CountTok(ReportBody, AlertTok) = 1 + Len(tasks)
        /\ CountTok(ReportBody, ToggleTok) = 1 + Len(tasks)
        /\ CountTok(ReportBody, CollapseTok) = 1 + Len(tasks)
        /\ IncludeTextsListed
        /\ \A i \in 1..Len(tasks) :
              \E k \in 1..Len(RndDistinct) :
                  \/ Occurs(IncludeCollapsibleBlock(tasks[i], RndDistinct[k]), ReportBody)
                  \/ Occurs(IncludeCollapsibleBlock(tasks[i], RndRepeat[1]), ReportBody)

\* a converted task that holds a result and targets two hosts was rendered
C11_Witness ==
    /\ ReportComplete
    /\ AllLocalIncludes
    /\ tasks[1].results # <<>>
    /\ Len(tasks[1].include_hosts) = 2
    /\ CountTok(ReportBody, ToggleTok) = 2

SummaryTok == "\nSummary: "

Categories == <<"ok", "changed", "unreachable", "failures">>

CategoryColor(s) ==
    CASE s = "ok" -> "success"
      [] s = "changed" -> "warning"
      [] s = "unreachable" -> "danger"
      [] s = "failures" -> "danger"

\* one "category=count" entry, colored when the count is not zero
EntryText(s, n) ==
    IF n # 0
    THEN <<"<code class=text-", CategoryColor(s), ">", s, "=", ToString(n), "  ",
           "</code>">>
    ELSE <<s, "=", ToString(n), "  ">>

\* the entries of the four categories in their fixed order
EntriesText(t) ==
    EntryText("ok", t["ok"]) \o EntryText("changed", t["changed"])
    \o EntryText("unreachable", t["unreachable"])
    \o EntryText("failures", t["failures"])

RECURSIVE TotalOf(_, _)
TotalOf(processed, s) ==
    IF processed = <<>> THEN 0
    ELSE Head(processed)[s] + TotalOf(Tail(processed), s)

\* the run-wide totals line
TotalsText ==
    <<"Hosts: ", ToString(Len(stats.processed)), SummaryTok>>
    \o EntriesText([s \in {"ok", "changed", "unreachable", "failures"} |->
                       TotalOf(stats.processed, s)])
    \o <<"\n">>

\* the line of a host, from its name on
HostLineText(t) ==
    Escaped(t.host) \o <<"</code>", " : ">> \o EntriesText(t) \o <<"\n">>

\* where a text starts in the report body (0 when it does not occur)
PosOf(text) ==
    IF Occurs(text, ReportBody)
    THEN CHOOSE p \in 1..Len(ReportBody) :
            /\ p + Len(text) - 1 <= Len(ReportBody)
            /\ text # <<>> => ReportBody[p] = text[1]
            /\ SubSeq(ReportBody, p, p + Len(text) - 1) = text
    ELSE 0

\* the play block opens the report and every other block starts after the
\* whole summary
SummaryBeforeTasksAt(body, starts) ==
    /\ body[1] = AlertTok
    /\ body[2] = "dark"
    /\ \A p \in 2..Len(body) :
          body[p] = AlertTok =>
              /\ body[p + 1] # "dark"
              /\ \A q \in starts : p > q

SummaryBeforeTasks ==
    SummaryBeforeTasksAt(ReportBody,
        {PosOf(TotalsText)}
        \cup {PosOf(HostLineText(stats.processed[i])) : i \in 1..Len(stats.processed)})

\* every host has its line, the lines are in the order of the host names,
\* and the totals line holds the sums
SummaryLinesAndTotals ==
    /\ PosOf(TotalsText) # 0
    /\ \A i \in 1..Len(stats.processed) :
          PosOf(HostLineText(stats.processed[i])) # 0
    /\ \A i, j \in 1..Len(stats.processed) :
          LessText(stats.processed[i].host, stats.processed[j].host) =>
              PosOf(HostLineText(stats.processed[i]))
                  < PosOf(HostLineText(stats.processed[j]))

\* C12 as stated: the summary block precedes every task block; in it the
\* per-host lines come first and the run-wide totals follow them
C12_HostLinesThenTotals ==
    ReportComplete =>
        /\ SummaryBeforeTasks
        /\ SummaryLinesAndTotals
        /\ \A i \in 1..Len(stats.processed) :
              PosOf(HostLineText(stats.processed[i])) < PosOf(TotalsText)

\* C12 amended: the summary block precedes every task block; in it the
\* run-wide totals come first and the per-host lines follow them, hosts in
\* the order of their names, categories in the order ok, changed,
\* unreachable, failures; each total is the sum over the processed hosts
C12_TotalsThenHostLines ==
    ReportComplete =>
        /\ SummaryBeforeTasks
        /\ SummaryLinesAndTotals
        /\ \A i \in 1..Len(stats.processed) :
              PosOf(TotalsText) < PosOf(HostLineText(stats.processed[i]))

\* a report of two hosts, given in the other order, and of a task with a
\* result
C12_Witness ==
    /\ ReportComplete
    /\ Len(stats.processed) = 2
    /\ LessText(stats.processed[2].host, stats.processed[1].host)
    /\ Len(tasks) >= 1
    /\ tasks[1].results # <<>>
    /\ PosOf(TotalsText) > 1

\* the places of the report body where a collapsible region opens
CollapsibleAt == {p \in 1..Len(ReportBody) : ReportBody[p] = CollapseTok}

\* C13: within one rendered report no two collapsible containers carry the
\* same identifier
C13_UniqueIds ==
    ReportComplete =>
        \A p, q \in CollapsibleAt :
            p # q => ReportBody[p + 1] # ReportBody[q + 1]

\* the program ran on targets (it did not stop at --version or at a usage
\* error) and has ended
CliRanToEnd == cPc = "done" /\ cExit # "usage" /\ ~cArgs.version

\* the master device of a target does not answer
MasterDown(master) == Nexus(master).ok /\ Nexus(master).fqdn \in cDown

\* the diagnostic line that names a target
DiagnosticOf(text) == <<"# unresponsive targets: ">> \o text

\* the printed lines that hold an entry or a count read from a device
PrintedFrom(fqdn) ==
    {i \in 1..Len(cOut) :
        \/ /\ cOut[i][1] = "- { "
           /\ \E v \in 1..Len(DeviceData(fqdn).vlans) :
                 cOut[i][3] = DeviceData(fqdn).vlans[v].name
        \/ /\ cOut[i][1] = "vlan "
           /\ fqdn \in Devices \ cDown
           /\ cArgs.targets_file
           /\ \E t \in 1..Len(cArgs.targets) :
                 Nexus(TargetOf(cArgs.targets[t]).master).fqdn = fqdn}

\* the targets of a targets file: a target whose master does not answer
\* has its diagnostic line and no entry, the run ends normally, and the
\* targets that answer have their lines
FileTargetsTolerated ==
    /\ cExit = "0"
    /\ \A i \in 1..Len(cArgs.targets) :
          IF MasterDown(TargetOf(cArgs.targets[i]).master)
          THEN /\ \E j \in 1..Len(cOut) :
                     cOut[j] = DiagnosticOf(LineStrip(cArgs.targets[i]))
               /\ PrintedFrom(Nexus(TargetOf(cArgs.targets[i]).master).fqdn) = {}
          ELSE (cArgs.vxlan \/ cArgs.vlans_macs)
                   /\ Nexus(TargetOf(cArgs.targets[i]).master).fqdn \in Devices
               => PrintedFrom(Nexus(TargetOf(cArgs.targets[i]).master).fqdn) # {}

\* the target of the command line: when its master does not answer it has
\* its diagnostic line and no entry, and the run is not aborted
SingleTargetTolerated ==
    MasterDown(cArgs.m_conn) =>
        /\ cExit # "traceback"
        /\ \E j \in 1..Len(cOut) : cOut[j] = DiagnosticOf(cArgs.m_conn)
        /\ PrintedFrom(Nexus(cArgs.m_conn).fqdn) = {}

\* C14: whether the targets come from a targets file or from the command
\* line, a target that does not answer yields one diagnostic line naming it
\* and is skipped; the run does not abort and the other targets are processed
C14_FailedTargetSkipped ==
    CliRanToEnd =>
        IF cArgs.targets_file THEN FileTargetsTolerated ELSE SingleTargetTolerated

\* the branch of the targets file alone tolerates the targets that fail
C14_TargetsFileTolerant ==
    (CliRanToEnd /\ cArgs.targets_file) => FileTargetsTolerated

\* the Diff sources of the raw result of the event
rSources == IF rLooped THEN rItems ELSE <<rRaw>>

\* C15: record-result stores one Diff per element of `results`, in order,
\* and exactly one Diff without a `results` field; failed is the explicit
\* field when present, otherwise true exactly when the status label is
\* failed; changed is false when the source has no `changed` field
C15_DiffExtraction ==
    rN >= 1 =>
        LET diffs == rTask.results[1].diffs
        IN  /\ Len(diffs) = Len(rSources)
            /\ ~rLooped => Len(diffs) = 1
            /\ \A i \in 1..Len(rSources) :
                  /\ diffs[i].item = (IF HasKey(rSources[i], KeyItem)
                                      THEN Item(rSources[i], KeyItem) ELSE NoneN)
                  /\ diffs[i].failed =
                        (IF HasKey(rSources[i], KeyFailed)
                         THEN Item(rSources[i], KeyFailed)
                         ELSE BoolN(rEvent.status = "failed"))
                  /\ diffs[i].changed =
                        (IF HasKey(rSources[i], KeyChanged)
                         THEN Item(rSources[i], KeyChanged)
                         ELSE BoolN(FALSE))

\* an unreachable result of two items without failed and changed fields,
\* the first with a label, was recorded
C15_Witness ==
    /\ rN >= 1
    /\ rEvent.status = "unreachable"
    /\ rLooped
    /\ Len(rItems) = 2
    /\ \A i \in 1..2 : ~HasKey(rItems[i], KeyFailed) /\ ~HasKey(rItems[i], KeyChanged)
    /\ HasKey(rItems[1], KeyItem)
    /\ ~HasKey(rItems[2], KeyItem)
    /\ rTask.results[1].diffs[1].failed = BoolN(FALSE)
    /\ rTask.results[1].diffs[1].item # rTask.results[1].diffs[2].item

\* every task of the run was opened for an included role
AllIncludeRoles ==
    /\ tasks # <<>>
    /\ \A i \in 1..Len(tasks) : tasks[i].task_type = "IncludeRole"

RECURSIVE CountResults(_, _)
\* the number of the results of the tasks ts whose status is in S
CountResults(ts, S) ==
    IF ts = <<>> THEN 0
    ELSE Cardinality({j \in 1..Len(Head(ts).results) :
                         Head(ts).results[j].status \in S})
         + CountResults(Tail(ts), S)

TasksWithResults == Cardinality({i \in 1..Len(tasks) : tasks[i].results # <<>>})

AllStatuses == {"skipped", "include", "ok", "changed", "failed", "unreachable"}

IncludeRolesHaveStatusInclude ==
    \A i \in 1..Len(tasks) :
        tasks[i].task_type = "IncludeRole" => TaskStatus(tasks[i]) = "include"

\* C16 as stated: a Task opened for an included role has status include
\* and every one of its Results, whatever its status, renders header-only,
\* with no diff block and no debug body
C16_IncludeRoleHeaderOnly ==
    /\ IncludeRolesHaveStatusInclude
    /\ (ReportComplete /\ AllIncludeRoles) =>
          /\ CountTok(ReportBody, "Debug") = 0
          /\ HeaderlessBlocks(ReportBody) = {}
          /\ CountTok(ReportBody, AlertTok) =
                 1 + Len(tasks) + CountResults(tasks, AllStatuses)
          /\ CountTok(ReportBody, ToggleTok) = 1 + TasksWithResults

\* C16 amended: a Task opened for an included role has status include
\* whatever results it holds; its Results of status ok, skipped or include
\* render header-only (ok shown as include), its Results of status changed,
\* failed or unreachable render with their details and their debug body
C16_IncludeRoleDetailsOfFailures ==
    /\ IncludeRolesHaveStatusInclude
    /\ (ReportComplete /\ AllIncludeRoles) =>
          /\ CountResults(tasks, {"ok"}) = 0
          /\ CountTok(ReportBody, "Debug") =
                 CountResults(tasks, {"changed", "failed", "unreachable"})
          /\ CountTok(ReportBody, AlertTok) =
                 1 + Len(tasks) + CountResults(tasks, AllStatuses)
                 + CountResults(tasks, {"changed", "failed", "unreachable"})
                 + Cardinality(HeaderlessBlocks(ReportBody))
          /\ CountTok(ReportBody, ToggleTok) =
                 1 + TasksWithResults
                 + 2 * CountResults(tasks, {"changed", "failed", "unreachable"})

\* an included-role task with a successful and a failed result was rendered
C16_Witness ==
    /\ ReportComplete
    /\ AllIncludeRoles
    /\ Len(tasks[1].results) = 2
    /\ tasks[1].results[1].status = "include"
    /\ tasks[1].results[1].diffs[1].changed = BoolN(FALSE)
    /\ tasks[1].results[2].status = "failed"
    /\ CountTok(ReportBody, "Debug") = 1

\* the keys of the results of a task, in their order
ResultKeys(task) == [j \in 1..Len(task.results) |-> task.results[j].id]

\* the tasks before the last one are those of the state before
EarlierTasksKept(n) ==
    /\ Len(tasks') >= n
    /\ \A i \in 1..n : tasks'[i] = tasks[i]

\* C17: every start event appends one Task to the Run; a result event changes
\* only the Task opened last, whatever task name the result carries, storing
\* the result under its key at the place of the key's first arrival; an
\* include event changes only the Task opened last and keeps its results;
\* the Tasks opened earlier are never altered
C17_ResultsGoToLastTask ==
    [][ /\ event'.kind = "task" =>
              /\ Len(tasks') = Len(tasks) + 1
              /\ EarlierTasksKept(Len(tasks))
              /\ tasks'[Len(tasks')].name = event'.task.name
              /\ tasks'[Len(tasks')].prefix = event'.prefix
              /\ tasks'[Len(tasks')].results = <<>>
        /\ event'.kind = "result" =>
              /\ Len(tasks') = Len(tasks)
              /\ EarlierTasksKept(Len(tasks) - 1)
              /\ LET old == tasks[Len(tasks)]
                     new == tasks'[Len(tasks)]
                     key == ResultId(event'.result)
                     i == IndexOfId(old.results, key)
                 IN  /\ [new EXCEPT !.results = <<>>] = [old EXCEPT !.results = <<>>]
                     /\ ResultKeys(new) = IF i = 0 THEN Append(ResultKeys(old), key)
                                          ELSE ResultKeys(old)
                     /\ \A j \in 1..Len(old.results) :
                           j # i => new.results[j] = old.results[j]
                     /\ LET e == new.results[IF i = 0 THEN Len(new.results) ELSE i]
                        IN  /\ e.task_name = event'.result.task_name
                            /\ e.host = event'.result.host
                            /\ e.status = event'.status
        /\ event'.kind = "include" =>
              /\ Len(tasks') = Len(tasks)
              /\ EarlierTasksKept(Len(tasks) - 1)
              /\ tasks'[Len(tasks)].results = tasks[Len(tasks)].results
        /\ event'.kind = "play" => tasks' = tasks
      ]_vars

\* the second of two tasks has just received a result that carries the name
\* of the first one, which holds a result of its own
C17_Witness ==
    /\ Len(tasks) = 2
    /\ Len(tasks[1].results) = 1
    /\ Len(tasks[2].results) = 1
    /\ event.kind = "result"
    /\ tasks[2].name # tasks[1].name
    /\ tasks[2].results[1].task_name = tasks[1].name
    /\ tasks[1].results[1].task_name = tasks[1].name

\* C18: after the run statistics the report is written in full and its
\* summary holds the line of every processed host, also of a host whose
\* four counts are all zero
C18_SummaryForEveryStats ==
    phase = "done" =>
        /\ ReportComplete
        /\ \A i \in 1..Len(stats.processed) :
              Occurs(HostLineText(stats.processed[i]), ReportBody)

====
